---- MODULE Spec2Model ----
(***************************************************************************)
(* ring360: a value type for angles on a 360-degree ring (src/src/lib.rs). *)
(*                                                                         *)
(* A Ring360 is a tuple struct around one f64, the raw value.  The model   *)
(* represents an f64 by an integer count of ticks, a tick being 2^-SubBits *)
(* of a degree, and keeps the shape of binary floating point: a value has  *)
(* Prec significant bits, so that magnitudes below 256 degrees are         *)
(* multiples of one tick, magnitudes in [256, 512) multiples of two ticks, *)
(* and so on, and every sum or difference is rounded to the nearest such   *)
(* value, ties to even (fl below).  An f64 is this format with SubBits =   *)
(* 45 and Prec = 53; the model shrinks SubBits and keeps the rounding.     *)
(* NaN, the infinities and overflow are outside the model.                 *)
(*                                                                         *)
(* The library has no state of its own: every method is a pure function.   *)
(* The state machine is a caller that holds one Ring360 value, builds it   *)
(* with either constructor, combines it with + and -, and queries it.      *)
(*                                                                         *)
(* Two specifications share the operators.  Spec draws every input from    *)
(* whole degrees (multiples of Step), on which no operation of the library *)
(* rounds: equalities between results, which the specification of the      *)
(* library states up to floating-point rounding, are checked there.        *)
(* SpecFine adds inputs a tick or two away from zero, smaller than half    *)
(* the spacing of the format at 360, where a sum with 360 rounds.          *)
(***************************************************************************)
EXTENDS Integers

VARIABLES
  ring,    \* the raw f64 of the value the caller holds (self.0)
  ctor,    \* how that value was produced: "new", "from_gis", "add", "sub"
  lhs,     \* constructor argument, or the raw left operand of + / -
  rhs,     \* the raw right operand of + / - (0 after a constructor)
  op,      \* the last query applied to the value ("none" right after it is built)
  arg,     \* the argument of that query (an f64, or the raw value of a Ring360)
  out,     \* the f64 the query returned
  turns    \* the i64 the query returned (rotations)

vars == <<ring, ctor, lhs, rhs, op, arg, out, turns>>

(***************************************************************************)
(* Bounds of the model.                                                    *)
(***************************************************************************)
\* binary digits kept after the point below 256 degrees (an f64 keeps 45)
SubBits == 3
\* whole-degree inputs are the multiples of Step degrees ...
Step == 45
\* ... of magnitude at most MaxRaw degrees (a turn and a half either way)
MaxRaw == 540
\* fine inputs are at most MaxTiny ticks away from zero
MaxTiny == 2

\* ticks per degree
Tick == 2 ^ SubBits

\* significant bits of the format: 8 for the whole degrees below 256 (an f64 has 53)
Prec == SubBits + 8

\* the f64 of a whole number of degrees
whole(n) == n * Tick

Inputs == {whole(x) : x \in {y \in -MaxRaw..MaxRaw : y % Step = 0}}

FineInputs == Inputs \cup (-MaxTiny..MaxTiny)

(***************************************************************************)
(* f64 arithmetic.                                                         *)
(***************************************************************************)
\* the spacing of the format at magnitude x >= 0, in ticks
RECURSIVE spacing(_, _)
spacing(x, q) == IF x < (2 ^ Prec) * q THEN q ELSE spacing(x, 2 * q)

\* x >= 0 rounded to the nearest value of the format, ties to the even significand
fl_abs(x) ==
  LET q == spacing(x, 1)
      below == (x \div q) * q
      rest == x - below
  IN  IF 2 * rest < q THEN below
      ELSE IF 2 * rest > q THEN below + q
      ELSE IF (below \div q) % 2 = 0 THEN below ELSE below + q

\* the f64 result of an operation whose exact result is x
fl(x) == IF x < 0 THEN 0 - fl_abs(0 - x) ELSE fl_abs(x)

\* Rust's % on f64: exact, and the remainder has the sign of the dividend
fmod(x, m) == IF x >= 0 THEN x % m ELSE 0 - ((0 - x) % m)

\* f64::floor of the quotient x / d, for d > 0.  The division is correctly rounded
\* and, at these magnitudes, cannot round a quotient up to the next integer.
floor_div(x, d) == x \div d

(***************************************************************************)
(* impl Ring360                                                            *)
(***************************************************************************)
BASE == whole(360)

\* the tuple-struct constructor Ring360(x): the raw value is stored verbatim
Ring360(x) == x

value(self) == self

half_turn == BASE \div 2

minus_half_turn == fl(0 - BASE \div 2)

from_gis(lng180) ==
  IF lng180 < 0 THEN Ring360(fl(BASE + lng180)) ELSE Ring360(lng180)

degrees(self) ==
  LET deg_val == fmod(self, BASE)
  IN  IF deg_val < 0 THEN fl(BASE - fl(0 - deg_val)) ELSE deg_val

to_f64(self) == degrees(self)

to_gis_strict(self) ==
  IF degrees(self) < half_turn THEN degrees(self) ELSE fl(degrees(self) - BASE)

to_gis(self) ==
  IF degrees(self) <= half_turn THEN degrees(self) ELSE fl(degrees(self) - BASE)

rotations_trunc(self) ==
  IF self >= 0 THEN self \div BASE ELSE 0 - ((0 - self) \div BASE)

rotations(self) == floor_div(self, BASE)

as_tuple(self) == <<degrees(self), rotations(self)>>

angle_f64_no_wrap_up(self, other_value) ==
  LET diff == fl(fmod(other_value, BASE) - degrees(self))
  IN  IF diff > half_turn THEN fl(diff - BASE) ELSE diff

angle_f64(self, other_value) ==
  LET diff == fl(fmod(other_value, BASE) - degrees(self))
  IN  IF diff < minus_half_turn THEN fl(diff + BASE)
      ELSE IF diff > half_turn THEN fl(diff - BASE)
      ELSE diff

angle_f64_abs_mirror(self, other_value) ==
  LET relative_value == angle_f64(self, other_value)
  IN  IF relative_value < 0 THEN 0 - relative_value ELSE relative_value

angle_f64_abs(self, other_value) ==
  LET relative_value == angle_f64(self, other_value)
  IN  IF relative_value < 0 THEN fl(BASE + relative_value) ELSE relative_value

angle(self, other_value) == angle_f64(self, degrees(other_value))

angle_abs(self, other_value) == angle_f64_abs(self, degrees(other_value))

\* impl Add / impl Sub for Ring360
add_reduced(self, other) == fmod(fl(self + value(other)), BASE)

add(self, other) == fl(self + value(other))

sub(self, other) == fl(self - value(other))

(***************************************************************************)
(* impl ToRing360 for f64                                                  *)
(***************************************************************************)
to_360(x) == Ring360(x)

to_360_gis(x) == from_gis(x)

mod_360(x) == degrees(Ring360(x))

angle_360(x, other_value) == angle_f64(Ring360(x), other_value)

angle_360_abs(x, other_value) == angle_f64_abs(Ring360(x), other_value)

(***************************************************************************)
(* The caller.                                                             *)
(***************************************************************************)
Built(r, how, a, b) ==
  /\ ring' = r
  /\ ctor' = how
  /\ lhs' = a
  /\ rhs' = b
  /\ op' = "none"
  /\ arg' = 0
  /\ out' = 0
  /\ turns' = 0

Queried(what, a, f, i) ==
  /\ op' = what
  /\ arg' = a
  /\ out' = f
  /\ turns' = i
  /\ UNCHANGED <<ring, ctor, lhs, rhs>>

Init ==
  \E x \in Inputs :
    /\ ring = to_360(x)
    /\ ctor = "new"
    /\ lhs = x
    /\ rhs = 0
    /\ op = "none"
    /\ arg = 0
    /\ out = 0
    /\ turns = 0

New(S) == \E x \in S : Built(to_360(x), "new", x, 0)

FromGis(S) == \E x \in S : Built(to_360_gis(x), "from_gis", x, 0)

Add ==
  \E other \in Inputs :
    /\ add(ring, other) \in whole(0 - MaxRaw)..whole(MaxRaw)
    /\ Built(add(ring, other), "add", ring, other)

Sub ==
  \E other \in Inputs :
    /\ sub(ring, other) \in whole(0 - MaxRaw)..whole(MaxRaw)
    /\ Built(sub(ring, other), "sub", ring, other)

Degrees == Queried("degrees", 0, to_f64(ring), 0)

Rotations == Queried("rotations", 0, 0, rotations(ring))

AsTuple == Queried("as_tuple", 0, as_tuple(ring)[1], as_tuple(ring)[2])

ToGis == Queried("to_gis", 0, to_gis(ring), 0)

AngleF64(S) == \E v \in S : Queried("angle_f64", v, angle_f64(ring, v), 0)

AngleF64Abs(S) ==
  \E v \in S : Queried("angle_f64_abs", v, angle_f64_abs(ring, v), 0)

Angle(S) == \E v \in S : Queried("angle", v, angle(ring, Ring360(v)), 0)

AngleAbs(S) == \E v \in S : Queried("angle_abs", v, angle_abs(ring, Ring360(v)), 0)

\* whole-degree inputs: no operation rounds
Next ==
  \/ New(Inputs)
  \/ FromGis(Inputs)
  \/ Add
  \/ Sub
  \/ Degrees
  \/ Rotations
  \/ AsTuple
  \/ ToGis
  \/ AngleF64(Inputs)
  \/ AngleF64Abs(Inputs)
  \/ Angle(Inputs)
  \/ AngleAbs(Inputs)

Spec == Init /\ [][Next]_vars

\* fine inputs as well: a value is built from any of them and queried
NextFine ==
  \/ New(FineInputs)
  \/ FromGis(FineInputs)
  \/ Degrees
  \/ Rotations
  \/ AsTuple
  \/ ToGis
  \/ AngleF64(FineInputs)
  \/ AngleF64Abs(FineInputs)
  \/ Angle(FineInputs)
  \/ AngleAbs(FineInputs)

SpecFine == Init /\ [][NextFine]_vars

(***************************************************************************)
(* Properties.                                                             *)
(***************************************************************************)
InRing(d) == 0 <= d /\ d < BASE

\* the two positions are exactly half a turn apart
HalfTurnApart(a, b) ==
  degrees(b) - degrees(a) \in {half_turn, minus_half_turn}

\* C1: the normalized degrees of every finite raw value, negative, zero or beyond
\* a full turn, lie in [0, 360); so do mod_360 and to_f64.
C1_DegreesInRange ==
  op = "degrees" => InRing(out) /\ InRing(mod_360(ring))

\* C2: the pair of as_tuple rebuilds the raw value, raw = degrees + rotations * 360,
\* with rotations the floor of raw / 360: -1 for a negative raw value within a
\* turn of zero, and degrees 0 for an exact negative multiple of 360.
C2_Reconstruction ==
  op = "as_tuple" =>
    /\ ring = out + turns * BASE
    /\ turns * BASE <= ring /\ ring < (turns + 1) * BASE
    /\ (0 - BASE < ring /\ ring < 0) => turns = -1
    /\ (ring < 0 /\ ring % BASE = 0) => out = 0

C2_Witness == op = "as_tuple" /\ 0 - BASE < ring /\ ring < 0 /\ turns = -1

\* C3: the signed shortest angle from a value to any raw number, negative and
\* multi-turn ones included, lies in (-180, 180].
C3_AngleInRange ==
  op \in {"angle_f64", "angle"} =>
    /\ minus_half_turn < out /\ out <= half_turn
    /\ minus_half_turn < angle_360(ring, arg) /\ angle_360(ring, arg) <= half_turn

\* C4: the value-to-raw-number form of the shortest angle agrees with the
\* value-to-value form on the same raw number: a.angle_f64(v) = a.angle(Ring360(v)).
C4_FormsAgree ==
  op = "angle_f64" => out = angle(ring, Ring360(arg))

\* C5: the shortest angle between two values is antisymmetric,
\* a.angle(b) = -(b.angle(a)), unless they are exactly half a turn apart.
C5_Antisymmetric ==
  op = "angle" =>
    \/ HalfTurnApart(ring, arg)
    \/ out = 0 - angle(Ring360(arg), Ring360(ring))

C5_Witness ==
  /\ op = "angle"
  /\ ~HalfTurnApart(ring, arg)
  /\ degrees(arg) - degrees(ring) < minus_half_turn
  /\ out > 0

\* C6: the absolute clockwise angle to any raw number lies in [0, 360): it is the
\* signed angle when that is non-negative, and the signed angle plus 360 (an f64
\* sum) otherwise.
C6_AbsInRange ==
  /\ op = "angle_f64_abs" =>
       /\ InRing(out)
       /\ InRing(angle_360_abs(ring, arg))
       /\ out = IF angle_f64(ring, arg) >= 0
                THEN angle_f64(ring, arg) ELSE fl(angle_f64(ring, arg) + BASE)
  /\ op = "angle_abs" =>
       /\ InRing(out)
       /\ out = IF angle(ring, Ring360(arg)) >= 0
                THEN angle(ring, Ring360(arg))
                ELSE fl(angle(ring, Ring360(arg)) + BASE)

\* C7: to_gis undoes from_gis on the GIS range, from_gis(x).to_gis() = x for
\* -180 < x <= 180, and to_gis always returns a value in (-180, 180].
C7_GisRoundTrip ==
  op = "to_gis" =>
    /\ minus_half_turn < out /\ out <= half_turn
    /\ (ctor = "from_gis" /\ minus_half_turn < lhs /\ lhs <= half_turn) => out = lhs

C7_Witness ==
  op = "to_gis" /\ ctor = "from_gis" /\ minus_half_turn < lhs /\ lhs < 0 /\ out = lhs

\* C8: for a negative GIS longitude x, -180 <= x < 0, both constructors give the
\* degrees 360 + x (an f64 sum), but Ring360(x) has rotations -1 and from_gis(x)
\* has rotations 0; for x >= 0 the two constructors give the same value.
C8_ConstructorDivergence ==
  ctor = "from_gis" =>
    /\ (minus_half_turn <= lhs /\ lhs < 0) =>
         /\ degrees(ring) = degrees(Ring360(lhs))
         /\ degrees(ring) = fl(BASE + lhs)
         /\ rotations(Ring360(lhs)) = -1
         /\ rotations(ring) = 0
         /\ op = "rotations" => turns = 0
    /\ lhs >= 0 => ring = Ring360(lhs)

\* C9: + and - do not reduce: the raw value of the result is the signed sum of the
\* operands' raw values, its degrees are that sum mod 360 (sign-corrected), and its
\* rotations are the floor of that sum / 360.
C9_DeferredReduction ==
  LET sum == IF ctor = "add" THEN lhs + rhs ELSE lhs - rhs
  IN  ctor \in {"add", "sub"} =>
        /\ value(ring) = sum
        /\ degrees(ring) = sum % BASE
        /\ rotations(ring) = sum \div BASE
        /\ op = "degrees" => out = sum % BASE
        /\ op = "rotations" => turns = sum \div BASE

C9_Witness ==
  /\ ctor = "add" /\ lhs > 0 /\ lhs < BASE /\ rhs > 0 /\ rhs < BASE
  /\ ring > BASE
  /\ op = "rotations" /\ turns = 1

\* C10: the absolute clockwise angle is the normalized difference,
\* a.angle_f64_abs(b) = Ring360(b - a.value()).degrees(); the two directions add up
\* to 360 when the positions differ mod 360 and are both 0 when they coincide.
C10_AbsIsReducedDifference ==
  op = "angle_f64_abs" =>
    LET back == angle_f64_abs(Ring360(arg), value(ring))
    IN  /\ out = degrees(Ring360(arg - value(ring)))
        /\ IF degrees(Ring360(arg)) = degrees(ring)
           THEN out = 0 /\ back = 0
           ELSE out + back = BASE

C10_Witness ==
  /\ op = "angle_f64_abs"
  /\ arg < 0 - BASE
  /\ ring > BASE
  /\ out > half_turn

====
